---- MODULE Spec2Model ----
(***************************************************************************)
(* hGriff0n/tags: metadata readers for MPEG (ID3v1 / ID3v2) and M4A files. *)
(*                                                                         *)
(* The library is a set of synchronous parsers.  Every parser is modelled  *)
(* as an operator that computes what the Rust code computes, on byte       *)
(* sequences (a byte is a number in 0..255, a String is the sequence of    *)
(* its code points).  The state of the model is the last call made on the  *)
(* library: which operation (op), on which input (input), with what result *)
(* (result).  One action per public operation draws the input from a       *)
(* bounded set and applies the operation.                                  *)
(*                                                                         *)
(* A result is a record with a field "kind":                               *)
(*    "Ok"    the Rust function returned Ok(v) / a value       (field v)   *)
(*    "Err"   the Rust function returned Err(e)       (field err: kind)    *)
(*    "Panic" the Rust code panicked (index out of range, unwrap on None,  *)
(*            arithmetic overflow in a debug build)                        *)
(***************************************************************************)
EXTENDS Integers, Sequences, FiniteSets, TLC

VARIABLES op, input, result

vars == <<op, input, result>>

(***************************************************************************)
(* Bytes, bit operations, slices                                           *)
(***************************************************************************)
Byte == 0..255

Min(a, b) == IF a < b THEN a ELSE b

\* F applied to the value of e, with e evaluated once (`let x = e;`): a bound
\* variable holds a value, where a LET definition is expanded at every use
With(e, F(_)) == CHOOSE y \in {F(x) : x \in {e}} : TRUE

RECURSIVE Pow2(_)
Pow2(n) == IF n = 0 THEN 1 ELSE 2 * Pow2(n - 1)

RECURSIVE BitAnd(_, _)
BitAnd(a, b) ==
    IF a = 0 \/ b = 0 THEN 0
    ELSE (IF a % 2 = 1 /\ b % 2 = 1 THEN 1 ELSE 0) + 2 * BitAnd(a \div 2, b \div 2)

RECURSIVE BitOr(_, _)
BitOr(a, b) ==
    IF a = 0 THEN b
    ELSE IF b = 0 THEN a
    ELSE (IF a % 2 = 1 \/ b % 2 = 1 THEN 1 ELSE 0) + 2 * BitOr(a \div 2, b \div 2)

\* x << n for the shifts of the code, none of which leaves 31 bits
\* (at most 0x7f << 21 and 0xff << 8)
Shl(x, n) == x * Pow2(n)

\* A u32 is held as <<high 16 bits, low 16 bits>>: a plain big-endian size
\* with its top bit set does not fit the checker's integers.
U32(n) == <<n \div 65536, n % 65536>>

\* a u32 below 2^31 as a number (widening `as u64` / `as usize`)
U32ToNat(x) == x[1] * 65536 + x[2]

\* the comparisons of a u32 with a number below 2^16 (a buffer length)
U32Le(x, n) == x[1] = 0 /\ x[2] <= n

U32Gt(x, n) == ~U32Le(x, n)

\* buf[i] with Rust's 0-based index
At(buf, i) == buf[i + 1]

\* &buf[from..to] with Rust's 0-based half-open range (from <= to <= len)
Slice(buf, from, to) == SubSeq(buf, from + 1, to)

\* Vec::resize(n, 0)
Resize(buf, n) == [i \in 1..n |-> IF i <= Len(buf) THEN buf[i] ELSE 0]

\* BigEndian::read_u32 / read_u16 of the first bytes of buf
read_u32(buf) == <<buf[1] * 256 + buf[2], buf[3] * 256 + buf[4]>>

read_u16(buf) == buf[1] * Pow2(8) + buf[2]

Ok(v) == [kind |-> "Ok", v |-> v]

Err(e) == [kind |-> "Err", err |-> e]

Panic == [kind |-> "Panic"]

(***************************************************************************)
(* mpeg/tag.rs, mod synch                                                  *)
(***************************************************************************)
RECURSIVE int_from_buf_loop(_, _, _, _)
int_from_buf_loop(buf, len, i, sum) ==
    IF i > len THEN [sum |-> sum, not_sync_safe |-> FALSE]
    ELSE IF BitAnd(At(buf, i), 128) # 0 THEN [sum |-> sum, not_sync_safe |-> TRUE]
    ELSE int_from_buf_loop(buf, len, i + 1,
             BitOr(sum, Shl(BitAnd(At(buf, i), 127), (len - i) * 7)))

\* A plausible slip: the fallback for a size that is not synch-safe is left out.
int_from_buf_NoFallback(buf) ==
    U32(int_from_buf_loop(buf, Min(Len(buf) - 1, 3), 0, 0).sum)

\* synch::int_from_buf, for a buffer of at least one byte
int_from_buf(buf) ==
    LET len == Min(Len(buf) - 1, 3)
        r   == int_from_buf_loop(buf, len, 0, 0)
    IN  IF r.not_sync_safe
        THEN IF Len(buf) >= 4 THEN read_u32(buf) ELSE read_u32(Resize(buf, 4))
        ELSE U32(r.sum)

RECURSIVE decode_slice_loop(_, _, _, _)
decode_slice_loop(buf, i, new, last) ==
    IF i > Len(buf) THEN new
    ELSE LET byte == buf[i]
         IN  decode_slice_loop(buf, i + 1,
                 IF last[1] # 255 \/ last[2] # 0 THEN Append(new, byte) ELSE new,
                 <<last[2], byte>>)

\* synch::decode_slice: `last` holds the two bytes read before the current one
decode_slice(buf) == decode_slice_loop(buf, 1, <<>>, <<0, 0>>)

\* synch::decode
decode(buf) == decode_slice(buf)

(***************************************************************************)
(* Inputs of the synch codec                                               *)
(***************************************************************************)
\* longest buffer handed to decode_slice
MaxBufLen == 5

SizeBytes == {0, 1, 85, 127, 128, 255}

UnsynchBytes == {0, 1, 255}

BufsOf(S, n) == UNION {[1..k -> S] : k \in 0..n}

\* The library keeps nothing between two calls (every parser builds its
\* result from its arguments alone), so a behaviour is one call on a fresh
\* library: each action is enabled in the initial state only.
Init ==
    /\ op = "none"
    /\ input = <<>>
    /\ result = <<>>

IntFromBuf ==
    \E buf \in [1..4 -> SizeBytes] :
        /\ op = "none"
        /\ op' = "int_from_buf"
        /\ input' = buf
        /\ result' = int_from_buf(buf)

DecodeSlice ==
    \E buf \in BufsOf(UnsynchBytes, MaxBufLen) :
        /\ op = "none"
        /\ op' = "decode_slice"
        /\ input' = buf
        /\ result' = decode(buf)

NextSynch == IntFromBuf \/ DecodeSlice

SpecSynch == Init /\ [][NextSynch]_vars

(***************************************************************************)
(* C1: int_from_buf on 4 bytes: with every high bit clear the result is    *)
(* the sum of (byte_i & 0x7f) << (7*(3-i)); with any high bit set it is    *)
(* the plain big-endian u32 of the same bytes.                             *)
(***************************************************************************)
C1_SynchsafeDecode ==
    op = "int_from_buf" =>
        IF \A i \in 1..4 : input[i] < 128
        THEN /\ result[1] < 4096
             /\ result[1] * 65536 + result[2] =
                    (input[1] % 128) * 2097152 + (input[2] % 128) * 16384
                    + (input[3] % 128) * 128 + (input[4] % 128)
        ELSE result = <<input[1] * 256 + input[2], input[3] * 256 + input[4]>>

\* both cases occur: a synch-safe size, and a fallback whose value differs
\* from the 7-bit packing of the same bytes
C1_Witness ==
    /\ op = "int_from_buf"
    /\ input = <<1, 128, 0, 85>>
    /\ result = <<384, 85>>
    /\ result # U32(2097152 + 85)

(***************************************************************************)
(* C2: decode_slice returns the input with the stuffed 0x00 of every       *)
(* 0xFF 0x00 pair deleted and every other byte kept in order.              *)
(***************************************************************************)
\* the bytes of buf except each 0x00 that directly follows a 0xFF
RECURSIVE WithoutStuffedZeros(_, _)
WithoutStuffedZeros(buf, i) ==
    IF i > Len(buf) THEN <<>>
    ELSE IF i > 1 /\ buf[i - 1] = 255 /\ buf[i] = 0
         THEN WithoutStuffedZeros(buf, i + 1)
         ELSE <<buf[i]>> \o WithoutStuffedZeros(buf, i + 1)

C2_DecodeRemovesStuffedZero ==
    op = "decode_slice" => result = WithoutStuffedZeros(input, 1)


(***************************************************************************)
(* mpeg/frame.rs: SubClass, and mpeg/tag.rs: Tag (a frame_map from frame   *)
(* id to SubClass) with its accessors                                      *)
(***************************************************************************)
Text(s, enc) == [t |-> "Text", s |-> s, enc |-> enc]

Uint(n) == [t |-> "Uint", n |-> n]

Unknown == [t |-> "Unknown"]

Some(v) == [some |-> TRUE, v |-> v]

None == [some |-> FALSE]

\* HashMap::new()
EmptyMap == [k \in {} |-> 0]

\* HashMap::insert
Insert(map, key, value) == [k \in DOMAIN map \cup {key} |-> IF k = key THEN value ELSE map[k]]

\* the frame ids the accessors look up, as code points
TIT2 == <<84, 73, 84, 50>>

TPE1 == <<84, 80, 69, 49>>

TALB == <<84, 65, 76, 66>>

TDRC == <<84, 68, 82, 67>>

COMM == <<67, 79, 77, 77>>

TRCK == <<84, 82, 67, 75>>

GetText(frame_map, key) ==
    IF key \in DOMAIN frame_map /\ frame_map[key].t = "Text"
    THEN Some(frame_map[key].s) ELSE None

GetUint(frame_map, key) ==
    IF key \in DOMAIN frame_map /\ frame_map[key].t = "Uint"
    THEN Some(frame_map[key].n) ELSE None

title(frame_map) == GetText(frame_map, TIT2)

artist(frame_map) == GetText(frame_map, TPE1)

album(frame_map) == GetText(frame_map, TALB)

year(frame_map) == GetUint(frame_map, TDRC)

comment(frame_map) == GetText(frame_map, COMM)

track(frame_map) == GetUint(frame_map, TRCK)

(***************************************************************************)
(* mpeg/tag.rs: Tag::unify                                                 *)
(***************************************************************************)
\* A plausible slip: every UTF16 variant is treated as unreliable.
unify_entry_AnyUtf16(ret, key, value) ==
    IF key \in DOMAIN ret
    THEN IF ret[key].t = "Text" /\ ret[key].enc \in {"UTF16", "UTF16be", "UTF16le"}
         THEN Insert(ret, key, value)
         ELSE ret
    ELSE Insert(ret, key, value)

\* the body of the inner loop: one (key, value) of a tag met by the fold
unify_entry(ret, key, value) ==
    IF key \in DOMAIN ret
    THEN IF ret[key].t = "Text" /\ ret[key].enc = "UTF16"
         THEN Insert(ret, key, value)
         ELSE ret
    ELSE Insert(ret, key, value)

\* for (key, value) in &tag.frame_map: the keys of one map are distinct, so
\* the order the HashMap yields them in does not change the fold
RECURSIVE unify_tag(_, _, _)
unify_tag(ret, tag, keys) ==
    IF keys = {} THEN ret
    ELSE LET key == CHOOSE k \in keys : TRUE
         IN  unify_tag(unify_entry(ret, key, tag[key]), tag, keys \ {key})

RECURSIVE unify_tags(_, _, _)
unify_tags(ret, tags, i) ==
    IF i > Len(tags) THEN ret
    ELSE unify_tags(unify_tag(ret, tags[i], DOMAIN tags[i]), tags, i + 1)

unify(tags) == unify_tags(EmptyMap, tags, 1)

\* most tags handed to unify (File::open hands over at most ID3v2, ID3v1, APE)
MaxTags == 3

\* the values a source may hold for TIT2 and for TRCK
Tit2Values ==
    {Text(<<97>>, "UTF8"), Text(<<98>>, "UTF16"), Text(<<99>>, "UTF16le")}

TrckValues == {Uint(7), Text(<<100>>, "UTF16")}

SourceTags ==
    {EmptyMap}
    \cup {Insert(EmptyMap, TIT2, v) : v \in Tit2Values}
    \cup {Insert(EmptyMap, TRCK, w) : w \in TrckValues}
    \cup {Insert(Insert(EmptyMap, TIT2, v), TRCK, w) : v \in Tit2Values, w \in TrckValues}

Unify ==
    \E n \in 0..MaxTags :
        \E tags \in [1..n -> SourceTags] :
            /\ op = "none"
            /\ op' = "unify"
            /\ input' = tags
            /\ result' = unify(tags)

NextUnify == Unify

SpecUnify == Init /\ [][NextUnify]_vars

(***************************************************************************)
(* C3: unify returns a tag whose keys are the union of the inputs' keys;   *)
(* the value of a key is that of the first tag defining it, except that a  *)
(* value held as Text marked UTF16 gives way to the next later tag         *)
(* defining the key.                                                       *)
(***************************************************************************)
IsUtf16Text(v) == v.t = "Text" /\ v.enc = "UTF16"

\* the indices of the tags that define key
Definers(tags, key) == {i \in 1..Len(tags) : key \in DOMAIN tags[i]}

\* the first definer whose value is not UTF16 text, or the last definer
Winner(tags, key) ==
    LET D    == Definers(tags, key)
        Good == {i \in D : ~IsUtf16Text(tags[i][key])}
    IN  IF Good # {} THEN CHOOSE i \in Good : \A j \in Good : i <= j
        ELSE CHOOSE i \in D : \A j \in D : j <= i

C3_UnifyFirstWinsExceptUtf16 ==
    op = "unify" =>
        /\ DOMAIN result = UNION {DOMAIN input[i] : i \in 1..Len(input)}
        /\ \A key \in DOMAIN result : result[key] = input[Winner(input, key)][key]

\* the ID3v2 title is marked UTF16 and the ID3v1 title replaces it, while a
\* UTF16le title of the first tag is kept in another call
C3_Witness ==
    /\ op = "unify"
    /\ Len(input) = 2
    /\ TIT2 \in DOMAIN input[1] /\ TIT2 \in DOMAIN input[2]
    /\ IsUtf16Text(input[1][TIT2])
    /\ result[TIT2] = input[2][TIT2]
    /\ result[TIT2] # input[1][TIT2]


(***************************************************************************)
(* mpeg/tag.rs, mod id3 (and its copies in formats/utils.rs, frame.rs):    *)
(* from_ascii                                                              *)
(***************************************************************************)
\* (b as char).is_alphanumeric() for a byte, i.e. a code point below 256:
\* letters and digits of ASCII, and the letters and numbers of Latin-1
is_alphanumeric(b) ==
    \/ b \in 48..57 \/ b \in 65..90 \/ b \in 97..122
    \/ b \in {170, 178, 179, 181, 185, 186, 188, 189, 190}
    \/ b \in 192..214 \/ b \in 216..246 \/ b \in 248..255

\* buf.iter().rposition(..): the last index (0-based) that satisfies it
rposition_alphanumeric(buf) ==
    LET hits == {i \in 0..(Len(buf) - 1) : is_alphanumeric(At(buf, i))}
    IN  IF hits = {} THEN None
        ELSE Some(CHOOSE i \in hits : \A j \in hits : j <= i)

\* every byte pushed `as char`: the string's code points are the bytes
from_ascii(buf) ==
    LET r   == rposition_alphanumeric(buf)
        idx == IF r.some THEN r.v + 1 ELSE Len(buf)
    IN  Slice(buf, 0, idx)

(***************************************************************************)
(* mpeg/tag.rs: Tag::id3v1_from_file                                       *)
(***************************************************************************)
\* A plausible slip: the ID3v1.1 test looks at the track byte only.
id3v1_comment_and_track_NoZeroCheck(tag, block) ==
    IF At(block, 126) # 0
    THEN Insert(Insert(tag, COMM, Text(from_ascii(Slice(block, 97, 125)), "UTF8")),
                TRCK, Uint(At(block, 126)))
    ELSE Insert(tag, COMM, Text(from_ascii(Slice(block, 97, 127)), "UTF8"))

id3v1_comment_and_track(tag, block) ==
    IF At(block, 125) = 0 /\ At(block, 126) # 0
    THEN Insert(Insert(tag, COMM, Text(from_ascii(Slice(block, 97, 125)), "UTF8")),
                TRCK, Uint(At(block, 126)))
    ELSE Insert(tag, COMM, Text(from_ascii(Slice(block, 97, 127)), "UTF8"))

\* the tag built from the 128 bytes read
id3v1_from_block(block) ==
    LET t1 == Insert(EmptyMap, TIT2, Text(from_ascii(Slice(block, 3, 33)), "UTF8"))
        t2 == Insert(t1, TPE1, Text(from_ascii(Slice(block, 33, 63)), "UTF8"))
        t3 == Insert(t2, TALB, Text(from_ascii(Slice(block, 63, 93)), "UTF8"))
    IN  id3v1_comment_and_track(t3, block)

\* seek(offset), read_exact(128 bytes), build the tag
id3v1_from_file(file, offset) ==
    IF offset + 128 > Len(file) THEN Err("UnexpectedEof")
    ELSE Ok(id3v1_from_block(Slice(file, offset, offset + 128)))

\* A 128-byte ID3v1 block "TAG..." with chosen bytes at the start of the
\* title (3, 4), of the artist (33), of the comment (97) and at 124..126;
\* every other byte is NUL padding.
Id3v1Block(t0, t1, a0, c0, b124, b125, b126) ==
    [i \in 1..128 |->
        CASE i = 1 -> 84 [] i = 2 -> 65 [] i = 3 -> 71
          [] i = 4 -> t0 [] i = 5 -> t1 [] i = 34 -> a0 [] i = 98 -> c0
          [] i = 125 -> b124 [] i = 126 -> b125 [] i = 127 -> b126
          [] OTHER -> 0]

Id3v1Blocks ==
    {Id3v1Block(t0, t1, 66, c0, b124, b125, b126) :
        t0 \in {0, 32, 65}, t1 \in {0, 32, 65}, c0 \in {0, 67},
        b124 \in {0, 68}, b125 \in {0, 69}, b126 \in {0, 5, 70}}

Id3v1FromFile ==
    \E block \in Id3v1Blocks :
        /\ op = "none"
        /\ op' = "id3v1_from_file"
        /\ input' = block
        /\ result' = id3v1_from_file(block, 0)

NextId3v1 == Id3v1FromFile

SpecId3v1 == Init /\ [][NextId3v1]_vars

(***************************************************************************)
(* C4: ID3v1 parse of a 128-byte block: with byte 125 = 0 and byte 126 # 0 *)
(* the comment comes from bytes [97,125) and track() is Some(byte 126);    *)
(* otherwise the comment comes from bytes [97,127) and track() is None.    *)
(* Title, artist and album always come from [3,33), [33,63), [63,93).      *)
(***************************************************************************)
C4_Id3v1Layout ==
    op = "id3v1_from_file" =>
        /\ result.kind = "Ok"
        /\ title(result.v) = Some(from_ascii(Slice(input, 3, 33)))
        /\ artist(result.v) = Some(from_ascii(Slice(input, 33, 63)))
        /\ album(result.v) = Some(from_ascii(Slice(input, 63, 93)))
        /\ IF At(input, 125) = 0 /\ At(input, 126) # 0
           THEN /\ comment(result.v) = Some(from_ascii(Slice(input, 97, 125)))
                /\ track(result.v) = Some(At(input, 126))
           ELSE /\ comment(result.v) = Some(from_ascii(Slice(input, 97, 127)))
                /\ track(result.v) = None

\* an ID3v1.1 block: byte 125 = 0, byte 126 = 5, a comment filling [97,125)
C4_Witness ==
    /\ op = "id3v1_from_file"
    /\ At(input, 125) = 0 /\ At(input, 126) = 5 /\ At(input, 124) = 68
    /\ track(result.v) = Some(5)
    /\ Len(comment(result.v).v) = 28

\* the other layout: byte 125 # 0 with a non-zero byte 126 inside the comment
C4_WitnessNoTrack ==
    /\ op = "id3v1_from_file"
    /\ At(input, 125) = 69 /\ At(input, 126) = 70
    /\ track(result.v) = None
    /\ Len(comment(result.v).v) = 30


(***************************************************************************)
(* Strings: String::len (UTF-8 bytes), str::from_utf8, String::from_utf16  *)
(***************************************************************************)
\* the UTF-8 length of one char
len_utf8(c) == IF c < 128 THEN 1 ELSE IF c < 2048 THEN 2 ELSE IF c < 65536 THEN 3 ELSE 4

\* String::len(): the number of UTF-8 bytes of the string
RECURSIVE StringLen(_)
StringLen(str) == IF str = <<>> THEN 0 ELSE len_utf8(Head(str)) + StringLen(Tail(str))

\* the number of bytes of the UTF-8 sequence a lead byte starts (0: no lead byte)
utf8_char_width(c) ==
    IF c < 128 THEN 1
    ELSE IF c \in 194..223 THEN 2
    ELSE IF c \in 224..239 THEN 3
    ELSE IF c \in 240..244 THEN 4
    ELSE 0

\* str::from_utf8 from byte i on: Some(code points), or None for invalid UTF-8
RECURSIVE from_utf8_at(_, _)
from_utf8_at(b, i) ==
    IF i > Len(b) THEN Some(<<>>)
    ELSE LET c == b[i]
             n == utf8_char_width(c)
         IN  IF n = 0 \/ i + n - 1 > Len(b) THEN None
             ELSE IF \E k \in 1..(n - 1) : b[i + k] \notin 128..191 THEN None
             ELSE IF \/ (c = 224 /\ b[i + 1] < 160) \/ (c = 237 /\ b[i + 1] > 159)
                     \/ (c = 240 /\ b[i + 1] < 144) \/ (c = 244 /\ b[i + 1] > 143)
                  THEN None
             ELSE LET cp == IF n = 1 THEN c
                            ELSE IF n = 2 THEN (c - 192) * 64 + (b[i + 1] - 128)
                            ELSE IF n = 3 THEN (c - 224) * 4096 + (b[i + 1] - 128) * 64
                                               + (b[i + 2] - 128)
                            ELSE (c - 240) * 262144 + (b[i + 1] - 128) * 4096
                                 + (b[i + 2] - 128) * 64 + (b[i + 3] - 128)
                  IN  With(from_utf8_at(b, i + n), LAMBDA rest :
                          IF rest.some THEN Some(<<cp>> \o rest.v) ELSE None)

from_utf8(b) == from_utf8_at(b, 1)

\* String::from_utf16 from unit i on: None for an unpaired surrogate
RECURSIVE from_utf16_at(_, _)
from_utf16_at(u, i) ==
    IF i > Len(u) THEN Some(<<>>)
    ELSE IF u[i] \in 55296..56319
         THEN IF i + 1 <= Len(u) /\ u[i + 1] \in 56320..57343
              THEN With(from_utf16_at(u, i + 2), LAMBDA rest :
                       IF rest.some
                       THEN Some(<<65536 + (u[i] - 55296) * 1024 + (u[i + 1] - 56320)>> \o rest.v)
                       ELSE None)
              ELSE None
    ELSE IF u[i] \in 56320..57343 THEN None
    ELSE With(from_utf16_at(u, i + 1), LAMBDA rest :
             IF rest.some THEN Some(<<u[i]>> \o rest.v) ELSE None)

from_utf16(u) == from_utf16_at(u, 1)

(***************************************************************************)
(* mpeg/frame.rs: frame ids, Header, StringType                            *)
(***************************************************************************)
TORY == <<84, 79, 82, 89>>

TDOR == <<84, 68, 79, 82>>

TYER == <<84, 89, 69, 82>>

IPLS == <<73, 80, 76, 83>>

TIPL == <<84, 73, 80, 76>>

TDAT == <<84, 68, 65, 84>>

\* "CRM", "EQU", "LNK", "RVA", "TIM", "TDA", "TSI": version-2 ids with no v3/v4 equivalent
v2_without_equivalent ==
    {<<67, 82, 77>>,
     <<69, 81, 85>>,
     <<76, 78, 75>>,
     <<82, 86, 65>>,
     <<84, 73, 77>>,
     <<84, 68, 65>>,
     <<84, 83, 73>>}

\* "EQUA", "RVAD", "TIME", "TRDA", "TSIZ", "TDAT": version-3 ids with no v4 equivalent
v3_without_equivalent ==
    {<<69, 81, 85, 65>>,
     <<82, 86, 65, 68>>,
     <<84, 73, 77, 69>>,
     <<84, 82, 68, 65>>,
     <<84, 83, 73, 90>>,
     TDAT}

\* "WFED", "MVNM", "MVIN": ids decoded as text although they do not start with 'T'
text_ids == {<<87, 70, 69, 68>>, <<77, 86, 78, 77>>, <<77, 86, 73, 78>>}

\* impl From<u8> for StringType
StringType_from(val) ==
    IF val = 0 THEN "Latin1"
    ELSE IF val = 1 THEN "UTF16"
    ELSE IF val = 2 THEN "UTF16be"
    ELSE IF val = 3 THEN "UTF8"
    ELSE IF val = 4 THEN "UTF16le"
    ELSE "Invalid"

sizeof_frame_header(version) == IF version < 3 THEN 6 ELSE 10

sizeof_footer == 10

\* Header::default(version)
Header_default(version) ==
    [frame_id |-> <<>>, size |-> U32(0), version |-> version,
     data_length_indicator |-> FALSE, unsynch |-> FALSE,
     tag_alter_preservation |-> FALSE, file_alter_preservation |-> FALSE,
     read_only |-> FALSE, compression |-> FALSE, encryption |-> FALSE,
     grouping_ident |-> FALSE]

\* Header::update: the legacy remap of self.frame_id ...
Header_update_id(frame_id) ==
    IF frame_id = TORY THEN TDOR
    ELSE IF frame_id = TYER THEN TDRC
    ELSE IF frame_id = IPLS THEN TIPL
    ELSE frame_id

\* ... and its result: false for an id with no v3/v4 equivalent
Header_update_ok(frame_id, version) ==
    LET id == Header_update_id(frame_id)
    IN  IF version = 2 THEN id \notin v2_without_equivalent
        ELSE IF version = 3 THEN id \notin v3_without_equivalent
        ELSE TRUE

\* buf[k] & mask != 0
Flag(byte, mask) == BitAnd(byte, mask) # 0

\* Frame::get_header
get_header(buf, version) ==
    LET header == Header_default(version)
    IN  IF version < 3
        THEN IF Len(buf) < 3 THEN Err("Other")
             ELSE Ok([header EXCEPT
                        !.frame_id = from_ascii(Slice(buf, 0, 3)),
                        !.size = IF Len(buf) < 6 THEN U32(0)
                                 ELSE read_u32(<<At(buf, 3), At(buf, 4), At(buf, 5), 0>>)])
        ELSE IF version = 3
        THEN IF Len(buf) < 4 THEN Err("Other")
             ELSE IF Len(buf) >= 10
                  THEN Ok([header EXCEPT
                        !.frame_id = from_ascii(Slice(buf, 0, 4)),
                        !.size = read_u32(Slice(buf, 4, 8)),
                        !.tag_alter_preservation = Flag(At(buf, 8), 128),
                        !.file_alter_preservation = Flag(At(buf, 8), 64),
                        !.read_only = Flag(At(buf, 8), 32),
                        !.compression = Flag(At(buf, 9), 128),
                        !.encryption = Flag(At(buf, 9), 64),
                        !.grouping_ident = Flag(At(buf, 9), 32)])
                  ELSE Ok([header EXCEPT !.frame_id = from_ascii(Slice(buf, 0, 4))])
        ELSE IF Len(buf) < 4 THEN Err("Other")
             ELSE IF Len(buf) >= 10
                  THEN Ok([header EXCEPT
                        !.frame_id = from_ascii(Slice(buf, 0, 4)),
                        !.size = int_from_buf(Slice(buf, 4, 8)),
                        !.tag_alter_preservation = Flag(At(buf, 8), 64),
                        !.file_alter_preservation = Flag(At(buf, 8), 32),
                        !.read_only = Flag(At(buf, 8), 16),
                        !.grouping_ident = Flag(At(buf, 9), 64),
                        !.compression = Flag(At(buf, 9), 8),
                        !.encryption = Flag(At(buf, 9), 4),
                        !.unsynch = Flag(At(buf, 9), 2),
                        !.data_length_indicator = Flag(At(buf, 9), 1)])
                  ELSE Ok([header EXCEPT !.frame_id = from_ascii(Slice(buf, 0, 4))])


(***************************************************************************)
(* mpeg/frame.rs: Frame::field_data and the text branch of from_buffer     *)
(***************************************************************************)
\* Frame::field_data: the payload bytes of the frame at the head of buf
field_data(buf, header) ==
    LET header_size == sizeof_frame_header(header.version)
        indicated   == header.compression \/ header.data_length_indicator
    IN  IF indicated /\ header_size + 4 > Len(buf) THEN Panic
        ELSE LET len    == IF indicated
                           THEN int_from_buf(Slice(buf, header_size, header_size + 4))
                           ELSE header.size
                 offset == IF indicated THEN header_size + 4 ELSE header_size
             IN  IF header.compression /\ ~header.encryption THEN Err("Other")
                 ELSE LET end == IF U32Le(len, Len(buf)) /\ offset + len[2] <= Len(buf)
                                 THEN offset + len[2] ELSE Len(buf)
                      IN  IF offset > end THEN Panic
                          ELSE Ok(Slice(buf, offset, end))

\* while len > 0 && data[len] == 0 { len -= 1 }
RECURSIVE strip_trailing_nul(_, _)
strip_trailing_nul(data, len) ==
    IF len > 0 /\ At(data, len) = 0 THEN strip_trailing_nul(data, len - 1) ELSE len

\* while len % alignment != 0 { len += 1 }
RECURSIVE align_up(_, _)
align_up(len, alignment) ==
    IF len % alignment # 0 THEN align_up(len + 1, alignment) ELSE len

\* for i in 1..(buf.len() / 2): the u16 pushed for each i
utf16_val(buf, i, swap) ==
    IF swap THEN BitOr(Shl(At(buf, i + 1), 8), At(buf, i))
    ELSE BitOr(Shl(At(buf, i), 8), At(buf, i + 1))

utf16_buf(buf, swap) ==
    [k \in 1..((Len(buf) \div 2) - 1) |-> utf16_val(buf, k, swap)]

\* the UTF16 arm: buf is &data[1..end]
text_utf16(buf) ==
    IF Len(buf) = 0 THEN Panic
    ELSE IF At(buf, 0) = 255 /\ Len(buf) < 2 THEN Panic
    ELSE LET swap == At(buf, 0) = 255 /\ At(buf, 1) = 254
             str  == from_utf16(utf16_buf(buf, swap))
         IN  IF str.some THEN Ok(str.v) ELSE Err("InvalidData")

\* the text-frame arm, given the field data (at least 2 bytes of it)
text_of_data(data) ==
    LET encoding  == StringType_from(At(data, 0))
        alignment == IF encoding \in {"Latin1", "UTF8"} THEN 1 ELSE 2
        len       == align_up(strip_trailing_nul(data, Len(data) - 1), alignment)
        end       == Min(len + 1, Len(data))
        text      == IF encoding = "Latin1" THEN Ok(from_ascii(Slice(data, 1, end)))
                     ELSE IF encoding \in {"UTF16", "UTF16be", "UTF16le"}
                          THEN text_utf16(Slice(data, 1, end))
                     ELSE LET str == from_utf8(Slice(data, 1, end))
                          IN  IF str.some THEN Ok(str.v) ELSE Err("InvalidData")
    IN  IF text.kind = "Ok" THEN Ok(Text(text.v, encoding)) ELSE text

\* frame.sub for a frame whose (remapped) id is frame_id
extract_subclass(buf, frame_header) ==
    LET frame_id   == frame_header.frame_id
        first_char == IF frame_id = <<>> THEN 0 ELSE Head(frame_id)
    IN  IF first_char = 84 \/ frame_id \in text_ids
        THEN LET data == field_data(buf, frame_header)
             IN  IF data.kind # "Ok" THEN data
                 ELSE IF Len(data.v) < 2 THEN Ok(Text(<<>>, "UTF16"))
                 ELSE text_of_data(data.v)
        ELSE Ok(Unknown)


(***************************************************************************)
(* mpeg/frame.rs: Frame::from_buffer.  buf is `&mut buf[pos..]`; the       *)
(* result is [res, buf]: what is returned and the buffer as it is left.    *)
(***************************************************************************)
\* ch outside [A-Z0-9]
bad_id_char(ch) == (ch < 65 \/ ch > 90) /\ (ch < 48 \/ ch > 57)

\* the "iTunes hack": a version-3 id of length 4 ending in NUL loses the NUL
\* and is updated as a version-2 id
itunes_id(frame_id, version) ==
    LET last_char == IF frame_id = <<>> THEN 97 ELSE frame_id[Len(frame_id)]
    IN  IF version = 3 /\ StringLen(frame_id) = 4 /\ last_char = 0
        THEN Header_update_id(SubSeq(frame_id, 1, Len(frame_id) - 1))
        ELSE frame_id

\* version > 3 with an unsynchronization flag: decode_slice over
\* buf[size .. size + header.size] (header is the TAG header), written back
\* at buf[size ..]
frame_unsynch(buf, header) ==
    LET size == sizeof_frame_header(header.major_version)
    IN  IF size + header.size > Len(buf) THEN Panic
        ELSE LET tmp == decode_slice(Slice(buf, size, size + header.size))
             IN  Ok([i \in 1..Len(buf) |->
                        IF i > size /\ i - size <= Len(tmp) THEN tmp[i - size] ELSE buf[i]])

\* from the compression test to the end
frame_decode(buf, version, frame_header) ==
    IF frame_header.compression THEN Err("Other")
    ELSE IF frame_header.encryption THEN Err("Other")
    ELSE LET frame == [size |-> frame_header.size[2],
                       frame_id |-> frame_header.frame_id,
                       sub |-> Unknown]
         IN  IF ~Header_update_ok(frame_header.frame_id, version) THEN Ok(Some(frame))
             ELSE LET updated == [frame_header EXCEPT
                                     !.frame_id = Header_update_id(frame_header.frame_id)]
                      sub     == extract_subclass(buf, updated)
                  IN  IF sub.kind = "Ok" THEN Ok(Some([frame EXCEPT !.sub = sub.v]))
                      ELSE sub

\* the structural test that ends frame iteration with Ok(None)
frame_invalid(buf, version, frame_header) ==
    \/ StringLen(frame_header.frame_id) # (IF version < 3 THEN 3 ELSE 4)
    \/ U32Le(frame_header.size, IF frame_header.data_length_indicator THEN 4 ELSE 0)
    \/ U32Gt(frame_header.size, Len(buf))

Frame_from_buffer(buf, header) ==
    LET version == header.major_version
    IN  With(get_header(buf, version), LAMBDA got :
        IF got.kind = "Err" THEN [res |-> got, buf |-> buf]
        ELSE IF frame_invalid(buf, version, got.v) THEN [res |-> Ok(None), buf |-> buf]
        ELSE With([got.v EXCEPT !.frame_id = itunes_id(got.v.frame_id, version)], LAMBDA frame_header :
                 IF \E k \in 1..Len(frame_header.frame_id) : bad_id_char(frame_header.frame_id[k])
                 THEN [res |-> Err("InvalidData"), buf |-> buf]
                 ELSE IF version > 3 /\ (header.unsynch \/ frame_header.unsynch)
                      THEN With(frame_unsynch(buf, header), LAMBDA un :
                               IF un.kind = "Panic" THEN [res |-> Panic, buf |-> buf]
                               ELSE [res |-> frame_decode(un.v, version, frame_header),
                                     buf |-> un.v])
                      ELSE [res |-> frame_decode(buf, version, frame_header), buf |-> buf]))

(***************************************************************************)
(* mpeg/tag.rs: TagHeader, parse_tag_header, Tag::from_buffer,             *)
(* Tag::id3v2_from_file                                                    *)
(***************************************************************************)
\* parse_tag_header: the footer flag is `buf[5] & 0b00000 != 0`
parse_tag_header(buf) ==
    IF Len(buf) < 10 THEN Err("InvalidData")
    ELSE IF \E k \in 6..9 : At(buf, k) >= 128 THEN Err("InvalidData")
    ELSE Ok([major_version |-> At(buf, 3),
             rev_num       |-> At(buf, 4),
             size          |-> U32ToNat(int_from_buf(Slice(buf, 6, 10))),
             unsynch       |-> Flag(At(buf, 5), 128),
             extended      |-> Flag(At(buf, 5), 64),
             experimental  |-> Flag(At(buf, 5), 32),
             footer        |-> Flag(At(buf, 5), 0)])

\* buf with its tail from pos on replaced by tail (Frame::from_buffer works
\* on &mut buf[pos..])
WithTail(buf, pos, tail) == Slice(buf, 0, pos) \o tail

\* The while loop of Tag::from_buffer.  `wrapped` says that
\* buf_end - sizeof_frame_header underflowed and wrapped (a release build),
\* which leaves a bound above every pos.
RECURSIVE frame_loop(_, _, _, _, _, _)
frame_loop(buf, header, buf_end, wrapped, pos, frame_map) ==
    LET hs == sizeof_frame_header(header.major_version)
    IN  IF ~(wrapped \/ pos < buf_end - hs) THEN Ok(frame_map)
        ELSE IF pos >= Len(buf) THEN Panic
        ELSE IF At(buf, pos) = 0
             THEN IF header.footer THEN Err("InvalidData") ELSE Ok(frame_map)
        ELSE With(Frame_from_buffer(Slice(buf, pos, Len(buf)), header), LAMBDA r :
                 IF r.res.kind # "Ok" THEN r.res
                 ELSE IF ~r.res.v.some THEN Ok(frame_map)
                 ELSE LET new_frame == r.res.v.v
                          sub == IF new_frame.frame_id \in {TDRC, TRCK}
                                 THEN Uint(0) ELSE new_frame.sub
                      IN  IF new_frame.size = 0 THEN Ok(frame_map)
                          ELSE With(WithTail(buf, pos, r.buf), LAMBDA next_buf :
                               With(Insert(frame_map, new_frame.frame_id, sub), LAMBDA next_map :
                                   frame_loop(next_buf, header, buf_end, wrapped,
                                              pos + new_frame.size + hs, next_map))))

\* Tag::from_buffer.  build is "debug" (an arithmetic overflow panics) or
\* "release" (it wraps).
Tag_from_buffer(buf0, header, build) ==
    With(IF header.unsynch /\ header.major_version <= 3 THEN decode(buf0) ELSE buf0, LAMBDA buf :
        LET buf_end   == IF header.footer /\ sizeof_footer <= Len(buf)
                         THEN Len(buf) - sizeof_footer ELSE Len(buf)
            underflow == buf_end < sizeof_frame_header(header.major_version)
        IN  IF underflow /\ build = "debug" THEN Panic
            ELSE frame_loop(buf, header, buf_end, underflow, 0, EmptyMap))

\* Tag::id3v2_from_file: seek(offset), read the 10-byte header, then
\* header.size bytes
id3v2_from_file(file, offset, build) ==
    IF offset + 10 > Len(file) THEN Err("UnexpectedEof")
    ELSE With(parse_tag_header(Slice(file, offset, offset + 10)), LAMBDA header :
             IF header.kind # "Ok" THEN header
             ELSE IF header.v.size # 0
                  THEN IF offset + 10 + header.v.size > Len(file) THEN Err("UnexpectedEof")
                       ELSE With(Slice(file, offset + 10, offset + 10 + header.v.size), LAMBDA buf :
                                Tag_from_buffer(buf, header.v, build))
                  ELSE Err("InvalidData"))

(***************************************************************************)
(* Inputs of the ID3v2 frame reader                                        *)
(***************************************************************************)
\* most UTF-16 code units in a generated text payload
MaxUnits == 2

\* UTF-16 code units: 'A', e-acute, a CJK ideograph
TextUnits == {65, 233, 20013}

\* the little-endian bytes of a sequence of code units
RECURSIVE Utf16Le(_)
Utf16Le(units) ==
    IF units = <<>> THEN <<>>
    ELSE <<Head(units) % 256, Head(units) \div 256>> \o Utf16Le(Tail(units))

UnitSeqs == UNION {[1..k -> TextUnits] : k \in 1..MaxUnits}

\* encoding byte 0x01, BOM FF FE, the units, and no or one NUL unit of padding
Utf16LePayloads ==
    {<<1, 255, 254>> \o Utf16Le(u) \o pad : u \in UnitSeqs, pad \in {<<>>, <<0, 0>>}}

OtherPayloads ==
    {<<0, 65>>, <<0, 65, 0>>, <<3, 65>>, <<3, 195, 169>>, <<3, 255>>,
     <<1, 254, 255, 0, 65>>, <<2, 0, 65>>, <<1, 0>>, <<0>>}

FramePayloads == Utf16LePayloads \cup OtherPayloads

\* "TT2\0" and "TP1\0" (version-2 ids padded by iTunes), and "tit2"
TT2_NUL == <<84, 84, 50, 0>>

TP1_NUL == <<84, 80, 49, 0>>

FrameIds == {TIT2, TYER, TDAT, COMM, TT2_NUL, TP1_NUL, <<116, 105, 116, 50>>}

\* the second flag byte of a frame header
FrameFlags == {0, 2, 4, 8, 10, 64, 128}

\* a version 3 / 4 frame: id, size, two flag bytes, payload (under 128 bytes,
\* so the plain and the synch-safe size are the same four bytes)
EncodeFrame(id, flags, payload) ==
    id \o <<0, 0, 0, Len(payload)>> \o <<0, flags>> \o payload

\* the tag header of a tag of `size` bytes of frame data
TagHeaderOf(version, unsynch, size) ==
    [major_version |-> version, rev_num |-> 0, size |-> size, unsynch |-> unsynch,
     extended |-> FALSE, experimental |-> FALSE, footer |-> FALSE]

\* the frame flags the version reads as compression or encryption
unsupported_flags(version, flags) ==
    IF version = 3 THEN Flag(flags, 128) \/ Flag(flags, 64)
    ELSE Flag(flags, 8) \/ Flag(flags, 4)

FrameFromBuffer ==
    \E version \in {3, 4}, unsynch \in BOOLEAN, id \in FrameIds,
       flags \in FrameFlags, payload \in FramePayloads :
        LET buf == EncodeFrame(id, flags, payload)
        IN  /\ op = "none"
            /\ op' = "Frame_from_buffer"
            /\ input' = [buf |-> buf, version |-> version, unsynch |-> unsynch,
                         id |-> id, flags |-> flags, payload |-> payload]
            /\ result' = Frame_from_buffer(buf, TagHeaderOf(version, unsynch, Len(buf))).res

\* An ID3v2 file: the 10-byte tag header, then the frames, then padding.
EncodeTag(version, hflags, frames) ==
    <<73, 68, 51, version, 0, hflags, 0, 0, 0, Len(frames)>> \o frames

\* a first frame that decodes without error, or none
LeadingFrames == {<<>>, EncodeFrame(TIT2, 0, <<0, 65>>)}

Id3v2FromFile ==
    \E version \in {3, 4}, hflags \in {0, 128}, lead \in LeadingFrames,
       id \in {TPE1, COMM}, flags \in FrameFlags, pad \in {<<>>, <<0, 0>>},
       build \in {"debug", "release"} :
        LET file == EncodeTag(version, hflags, lead \o EncodeFrame(id, flags, <<0, 66>>) \o pad)
        IN  /\ op = "none"
            /\ op' = "id3v2_from_file"
            /\ input' = [file |-> file, version |-> version, hflags |-> hflags,
                         lead |-> lead, id |-> id, flags |-> flags, build |-> build]
            /\ result' = id3v2_from_file(file, 0, build)

NextId3v2 == FrameFromBuffer \/ Id3v2FromFile

SpecId3v2 == Init /\ [][NextId3v2]_vars

(***************************************************************************)
(* C5: a text frame whose payload is 0x01, the BOM FF FE and little-endian *)
(* UTF-16 code units decodes to exactly the string of those code units     *)
(* (BOM excluded, trailing NUL padding stripped).                          *)
(***************************************************************************)
\* the code units of little-endian bytes
Utf16LeUnits(bytes) ==
    [k \in 1..(Len(bytes) \div 2) |-> bytes[2 * k - 1] + 256 * bytes[2 * k]]

RECURSIVE WithoutTrailingNul(_)
WithoutTrailingNul(units) ==
    IF units # <<>> /\ units[Len(units)] = 0
    THEN WithoutTrailingNul(SubSeq(units, 1, Len(units) - 1))
    ELSE units

IsUtf16LeTextFrame ==
    /\ op = "Frame_from_buffer"
    /\ input.id = TIT2 /\ input.flags = 0 /\ ~input.unsynch
    /\ Len(input.payload) >= 5
    /\ SubSeq(input.payload, 1, 3) = <<1, 255, 254>>

C5_Utf16TextDecodes ==
    IsUtf16LeTextFrame =>
        /\ result.kind = "Ok" /\ result.v.some
        /\ result.v.v.sub.t = "Text"
        /\ result.v.v.sub.s =
              WithoutTrailingNul(Utf16LeUnits(SubSeq(input.payload, 4, Len(input.payload))))

\* the payload of the claim, [0x01, 0xFF,0xFE, 0x41,0x00], decodes to a
\* one-character string that is not "A"
C5_CodeDecodesWrongUnit ==
    /\ IsUtf16LeTextFrame
    /\ input.payload = <<1, 255, 254, 65, 0>>
    /\ result.kind = "Ok" /\ result.v.some
    /\ result.v.v.sub = Text(<<16894>>, "UTF16")

(***************************************************************************)
(* C6: in a version-3 tag a frame whose id is three [A-Z0-9] characters    *)
(* followed by NUL, with a valid size, is accepted: it is returned (Some)  *)
(* with the 3-character id.                                                *)
(***************************************************************************)
IsNulPaddedV3Frame ==
    /\ op = "Frame_from_buffer"
    /\ input.version = 3
    /\ input.id \in {TT2_NUL, TP1_NUL}
    /\ input.flags = 0
    /\ input.payload = <<0, 65>>

C6_NulPaddedIdAccepted ==
    IsNulPaddedV3Frame =>
        /\ result.kind = "Ok" /\ result.v.some
        /\ result.v.v.frame_id = SubSeq(input.id, 1, 3)

\* what the code does with "TT2\0": Ok(None), the value that ends iteration
C6_CodeRejects ==
    /\ IsNulPaddedV3Frame
    /\ input.id = TT2_NUL
    /\ result = Ok(None)

(***************************************************************************)
(* C10: a structurally valid v3 or v4 frame whose compression or           *)
(* encryption flag is set makes the whole tag parse fail with a            *)
(* not-supported error (kind Other, not InvalidData); no tag is returned.  *)
(***************************************************************************)
HasUnsupportedFrame ==
    /\ op = "id3v2_from_file"
    /\ unsupported_flags(input.version, input.flags)

C10_UnsupportedFlagsFailParse ==
    HasUnsupportedFrame => result = Err("Other")

\* the cases of the claim that the code does meet: no unsynchronization
\* flag on a version-4 tag or frame
C10_HoldsWithoutV4Unsynch ==
    (/\ HasUnsupportedFrame
     /\ ~(input.version = 4 /\ (input.hflags = 128 \/ Flag(input.flags, 2))))
        => result = Err("Other")

\* a version-4 frame with the unsynchronization and compression flags panics
C10_CodePanics ==
    /\ HasUnsupportedFrame
    /\ input.version = 4 /\ input.flags = 10 /\ input.hflags = 0
    /\ result = Panic


(***************************************************************************)
(* m4a.rs: atom names (as the code points m4a::from_ascii yields), TagData *)
(***************************************************************************)
a_moov == <<109, 111, 111, 118>>

a_udta == <<117, 100, 116, 97>>

a_meta == <<109, 101, 116, 97>>

a_ilst == <<105, 108, 115, 116>>

a_stsd == <<115, 116, 115, 100>>

a_data == <<100, 97, 116, 97>>

a_mean == <<109, 101, 97, 110>>

a_name == <<110, 97, 109, 101>>

a_trkn == <<116, 114, 107, 110>>

a_gnre == <<103, 110, 114, 101>>

a_covr == <<99, 111, 118, 114>>

\* "----"
a_freeform == <<45, 45, 45, 45>>

\* "©nam", "©ART", "©alb": the byte 0xA9 read `as char` is U+00A9
a_nam == <<169, 110, 97, 109>>

a_ART == <<169, 65, 82, 84>>

a_alb == <<169, 97, 108, 98>>

\* "moov", "udta", "mdia", "meta", "ilst", "stbl", "minf", "moof", "traf",
\* "trak", "stsd"
containers ==
    {a_moov, a_udta, <<109, 100, 105, 97>>, a_meta, a_ilst, <<115, 116, 98, 108>>,
     <<109, 105, 110, 102>>, <<109, 111, 111, 102>>, <<116, 114, 97, 102>>,
     <<116, 114, 97, 107>>, a_stsd}

\* the item names Tag::from_atom decodes as a pair: "trkn", "disk"
pair_items == {a_trkn, <<100, 105, 115, 107>>}

\* ... as a flag: "cpil", "pgap", "pcst", "hdvd"
bool_items ==
    {<<99, 112, 105, 108>>, <<112, 103, 97, 112>>, <<112, 99, 115, 116>>, <<104, 100, 118, 100>>}

\* ... as an integer: "tmpo", "tvsn", "tves", "cnID", "sfID", "atID", "geID", "plID"
int_items ==
    {<<116, 109, 112, 111>>, <<116, 118, 115, 110>>, <<116, 118, 101, 115>>, <<99, 110, 73, 68>>,
     <<115, 102, 73, 68>>, <<97, 116, 73, 68>>, <<103, 101, 73, 68>>, <<112, 108, 73, 68>>}

\* ... as a byte: "stik", "rtng", "akID"
byte_items ==
    {<<115, 116, 105, 107>>, <<114, 116, 110, 103>>, <<97, 107, 73, 68>>}

\* meta::TagData; TagData::Uint has the shape of SubClass::Uint above
Empty == [t |-> "Empty"]

Bool(b) == [t |-> "Bool", b |-> b]

IntPair(fst, snd) == [t |-> "IntPair", fst |-> fst, snd |-> snd]

Str(str) == [t |-> "Str", s |-> str]

Unimplemented == [t |-> "Unimplemented"]

\* meta::GENRE_LIST: the ID3v1 genre names in order (its first entries)
GENRE_LIST ==
    << <<66, 108, 117, 101, 115>>,
       <<67, 108, 97, 115, 115, 105, 99, 32, 82, 111, 99, 107>>,
       <<67, 111, 117, 110, 116, 114, 121>> >>

\* m4a::from_ascii: every byte pushed `as char`, nothing trimmed
m4a_from_ascii(buf) == buf

\* u32::MAX
U32_MAX == <<65535, 65535>>

(***************************************************************************)
(* m4a.rs: read_atom.  The file is its bytes and a cursor pos; the result  *)
(* is Ok([atom, pos]) with the cursor after the call, or Err.  The lengths *)
(* read are below 2^31 (generated files keep the top bit of a length       *)
(* clear).                                                                 *)
(***************************************************************************)
Atom(offset, length, name, children) ==
    [offset |-> offset, length |-> length, name |-> name, children |-> children]

\* A plausible slip: the version/flags word of `meta` is not skipped.
header_skip_None(name) == 0

\* the extra header bytes skipped before the children are read
header_skip(name) ==
    IF name = a_meta THEN 4 ELSE IF name = a_stsd THEN 8 ELSE 0

RECURSIVE read_atom(_, _)
RECURSIVE read_children(_, _, _, _)
\* while let Ok(atom) = read_atom(file) { push; if !(pos < offset + length) break }
read_children(file, pos, end, children) ==
    With(read_atom(file, pos), LAMBDA r :
        IF r.kind # "Ok" THEN children
        ELSE IF ~(r.v.pos < end) THEN Append(children, r.v.atom)
        ELSE read_children(file, r.v.pos, end, Append(children, r.v.atom)))

read_atom(file, offset) ==
    IF offset + 8 > Len(file) THEN Err("UnexpectedEof")
    ELSE LET extended == U32ToNat(read_u32(Slice(file, offset, offset + 8))) = 1
         IN  IF extended /\ offset + 16 > Len(file) THEN Err("UnexpectedEof")
             ELSE LET buf    == IF extended THEN Slice(file, offset + 8, offset + 16)
                                ELSE Slice(file, offset, offset + 8)
                      length == U32ToNat(read_u32(buf))
                      cursor == IF extended THEN offset + 16 ELSE offset + 8
                      name   == m4a_from_ascii(Slice(buf, 4, 8))
                  IN  IF length < 8 THEN Err("InvalidData")
                      ELSE With(IF name \in containers
                                THEN read_children(file, cursor + header_skip(name),
                                                   offset + length, <<>>)
                                ELSE <<>>, LAMBDA children :
                               Ok([atom |-> Atom(offset, length, name, children),
                                   pos  |-> offset + length]))

\* File::open: while let Ok(atom) = read_atom(&mut file) { atoms.push(atom) }
RECURSIVE read_atoms(_, _, _)
read_atoms(file, pos, atoms) ==
    With(read_atom(file, pos), LAMBDA r :
        IF r.kind # "Ok" THEN atoms
        ELSE read_atoms(file, r.v.pos, Append(atoms, r.v.atom)))


(***************************************************************************)
(* m4a.rs: parseData and the typed decoders.  pos is the cursor, which     *)
(* Tag::from_atom has put at the atom's offset + 8.                        *)
(***************************************************************************)
\* the while loop of parseData over the atom's payload buf
RECURSIVE parseData_loop(_, _, _, _, _, _)
parseData_loop(buf, offset, iter, ret_buf, expected_flags, free_form) ==
    IF ~(offset < Len(buf)) THEN Ok(ret_buf)
    ELSE IF offset + 4 > Len(buf) THEN Panic
    ELSE LET length == U32ToNat(read_u32(Slice(buf, offset, offset + 4)))
         IN  IF length < 12 THEN Err("InvalidData")
             ELSE IF offset + 12 > Len(buf) THEN Panic
             ELSE LET name  == m4a_from_ascii(Slice(buf, offset + 4, offset + 8))
                      flags == read_u32(Slice(buf, offset + 8, offset + 12))
                      wrong == IF free_form /\ iter < 2
                               THEN (iter = 0 /\ name # a_mean) \/ (iter = 1 /\ name # a_name)
                               ELSE name # a_data
                      taken == expected_flags = U32_MAX \/ flags = expected_flags
                  IN  IF wrong THEN Err("InvalidData")
                      ELSE IF taken /\ (offset + 16 > offset + length \/ offset + length > Len(buf))
                           THEN Panic
                      ELSE With(IF taken
                                THEN Append(ret_buf, [flags |-> flags,
                                         bytes |-> Slice(buf, offset + 16, offset + length)])
                                ELSE ret_buf, LAMBDA next :
                               parseData_loop(buf, offset + length, iter + 1, next,
                                              expected_flags, free_form))

\* parseData: read_exact of len - 8 bytes, then the loop
parseData(len, file, pos, expected_flags, free_form) ==
    IF pos + (len - 8) > Len(file) THEN Err("UnexpectedEof")
    ELSE parseData_loop(Slice(file, pos, pos + (len - 8)), 0, 0, <<>>, expected_flags, free_form)

\* strs.join(sep)
RECURSIVE Join(_, _)
Join(strs, sep) ==
    IF strs = <<>> THEN <<>>
    ELSE IF Len(strs) = 1 THEN strs[1]
    ELSE strs[1] \o sep \o Join(Tail(strs), sep)

\* ", "
comma_space == <<44, 32>>

\* the payloads that are valid UTF-8, decoded, in order
RECURSIVE utf8_strings(_)
utf8_strings(buf) ==
    IF buf = <<>> THEN <<>>
    ELSE With(from_utf8(buf[1].bytes), LAMBDA str :
             IF str.some THEN <<str.v>> \o utf8_strings(Tail(buf))
             ELSE utf8_strings(Tail(buf)))

parseInt(len, file, pos) ==
    With(parseData(len, file, pos, U32_MAX, FALSE), LAMBDA buf :
        IF buf.kind # "Ok" THEN buf
        ELSE IF buf.v = <<>> THEN Ok(Empty)
        ELSE IF Len(buf.v[1].bytes) < 2 THEN Panic
        ELSE Ok(Uint(read_u16(Slice(buf.v[1].bytes, 0, 2)))))

parseByte(len, file, pos) ==
    With(parseData(len, file, pos, U32_MAX, FALSE), LAMBDA buf :
        IF buf.kind # "Ok" THEN buf
        ELSE IF buf.v = <<>> THEN Ok(Empty)
        ELSE IF Len(buf.v[1].bytes) < 1 THEN Panic
        ELSE Ok(Uint(At(buf.v[1].bytes, 0))))

parseIntPair(len, file, pos) ==
    With(parseData(len, file, pos, U32_MAX, FALSE), LAMBDA buf :
        IF buf.kind # "Ok" THEN buf
        ELSE IF buf.v = <<>> THEN Ok(Empty)
        ELSE IF Len(buf.v[1].bytes) < 6 THEN Panic
        ELSE Ok(IntPair(read_u16(Slice(buf.v[1].bytes, 2, 4)),
                        read_u16(Slice(buf.v[1].bytes, 4, 6)))))

parseString(len, file, pos) ==
    With(parseData(len, file, pos, <<0, 1>>, FALSE), LAMBDA buf :
        IF buf.kind # "Ok" THEN buf
        ELSE IF buf.v = <<>> THEN Ok(Empty)
        ELSE Ok(Str(Join(utf8_strings(buf.v), comma_space))))

parseCover(len, file, pos) == Ok(Unimplemented)

\* GENRE_LIST.get(index - 1).unwrap(): index 0 overflows the subtraction
\* (a panic in a debug build; in a release build it wraps, get gives None
\* and unwrap panics), an index past the list makes unwrap panic
genre_lookup(index) ==
    IF index = 0 THEN Panic
    ELSE IF index - 1 >= Len(GENRE_LIST) THEN Panic
    ELSE Ok(Str(GENRE_LIST[(index - 1) + 1]))

parseGenre(len, file, pos) ==
    With(parseData(len, file, pos, U32_MAX, FALSE), LAMBDA buf :
        IF buf.kind # "Ok" THEN buf
        ELSE IF buf.v = <<>> THEN Ok(Empty)
        ELSE IF Len(buf.v[1].bytes) < 2 THEN Panic
        ELSE genre_lookup(read_u16(Slice(buf.v[1].bytes, 0, 2))))

parseBool(len, file, pos) ==
    With(parseData(len, file, pos, U32_MAX, FALSE), LAMBDA buf :
        IF buf.kind # "Ok" THEN buf
        ELSE IF buf.v = <<>> THEN Ok(Empty)
        ELSE Ok(Bool(buf.v[1].bytes # <<>> /\ At(buf.v[1].bytes, 0) # 0)))

\* the strings of the data entries of a free-form atom
RECURSIVE freeform_strings(_, _)
freeform_strings(buf, data_type) ==
    IF buf = <<>> THEN <<>>
    ELSE IF data_type = U32(0)
         THEN With(from_utf8(buf[1].bytes), LAMBDA str :
                  IF str.some THEN <<str.v>> \o freeform_strings(Tail(buf), data_type)
                  ELSE freeform_strings(Tail(buf), data_type))
    ELSE <<m4a_from_ascii(buf[1].bytes)>> \o freeform_strings(Tail(buf), data_type)

\* parseFreeForm: Ok of [name, item]
parseFreeForm(len, file, pos) ==
    With(parseData(len, file, pos, U32_MAX, TRUE), LAMBDA buf :
        IF buf.kind # "Ok" THEN buf
        ELSE IF Len(buf.v) > 2
        THEN LET mean == from_utf8(buf.v[1].bytes)
                 name == from_utf8(buf.v[2].bytes)
             IN  IF ~mean.some \/ ~name.some THEN Panic
                 ELSE Ok([name |-> a_freeform \o <<58>> \o mean.v \o <<58>> \o name.v,
                          item |-> Str(Join(freeform_strings(SubSeq(buf.v, 3, Len(buf.v)),
                                                             buf.v[3].flags), comma_space))])
        ELSE Ok([name |-> <<>>, item |-> Empty]))


(***************************************************************************)
(* m4a.rs: Tag::from_atom, read_tag, File::open, the accessors             *)
(***************************************************************************)
\* one arm of the match in Tag::from_atom: Ok(Some([key, item])) for an
\* insert, Ok(None) for a free-form atom that yields Empty
tag_item(atom, file) ==
    LET len  == atom.length
        pos  == atom.offset + 8
        name == atom.name
        Keyed(r) == IF r.kind = "Ok" THEN Ok(Some([key |-> name, item |-> r.v])) ELSE r
    IN  IF name = a_freeform
        THEN With(parseFreeForm(len, file, pos), LAMBDA r :
                 IF r.kind # "Ok" THEN r
                 ELSE IF r.v.item = Empty THEN Ok(None)
                 ELSE Ok(Some([key |-> r.v.name, item |-> r.v.item])))
        ELSE IF name \in pair_items THEN With(parseIntPair(len, file, pos), Keyed)
        ELSE IF name \in bool_items THEN With(parseBool(len, file, pos), Keyed)
        ELSE IF name \in int_items
             THEN With(parseInt(len, file, pos), Keyed)
        ELSE IF name \in byte_items THEN With(parseByte(len, file, pos), Keyed)
        ELSE IF name = a_gnre THEN With(parseGenre(len, file, pos), Keyed)
        ELSE IF name = a_covr THEN With(parseCover(len, file, pos), Keyed)
        ELSE With(parseString(len, file, pos), Keyed)

\* Tag::from_atom: the items of the children of ilst, or the first failure
RECURSIVE from_atom_loop(_, _, _, _)
from_atom_loop(atoms, i, file, items) ==
    IF i > Len(atoms) THEN Ok(items)
    ELSE With(tag_item(atoms[i], file), LAMBDA r :
             IF r.kind # "Ok" THEN r
             ELSE IF ~r.v.some THEN from_atom_loop(atoms, i + 1, file, items)
             ELSE With(Insert(items, r.v.v.key, r.v.v.item), LAMBDA next :
                      from_atom_loop(atoms, i + 1, file, next)))

Tag_from_atom(atoms, file) == from_atom_loop(atoms, 1, file, EmptyMap)

\* atoms.iter().position(|Atom(_, _, name, _)| name == wanted)
position(atoms, wanted) ==
    LET hits == {i \in 1..Len(atoms) : atoms[i].name = wanted}
    IN  IF hits = {} THEN None ELSE Some(CHOOSE i \in hits : \A j \in hits : i <= j)

\* read_tag: Ok(Some(tag)), Ok(None), or the panic of a decoder
read_tag(moov_index, atoms, file) ==
    LET udta_atoms == atoms[moov_index].children
        udta       == position(udta_atoms, a_udta)
    IN  IF ~udta.some THEN Ok(None)
        ELSE LET meta_atoms == udta_atoms[udta.v].children
                 meta       == position(meta_atoms, a_meta)
             IN  IF ~meta.some THEN Ok(None)
                 ELSE LET ilst_atoms == meta_atoms[meta.v].children
                          ilst       == position(ilst_atoms, a_ilst)
                      IN  IF ~ilst.some THEN Ok(None)
                          ELSE With(Tag_from_atom(ilst_atoms[ilst.v].children, file), LAMBDA r :
                                   IF r.kind = "Panic" THEN Panic
                                   ELSE IF r.kind = "Ok" THEN Ok(Some(r.v))
                                   ELSE Ok(None))

\* File::open: Ok(the tag's items), or Err
m4a_File_open(file) ==
    With(read_atoms(file, 0, <<>>), LAMBDA atoms :
        LET moov == position(atoms, a_moov)
        IN  IF ~moov.some THEN Err("InvalidData")
            ELSE With(read_tag(moov.v, atoms, file), LAMBDA tag :
                     IF tag.kind = "Panic" THEN Panic
                     ELSE IF tag.v.some THEN Ok(tag.v.v)
                     ELSE Err("InvalidData")))

GetStr(items, key) ==
    IF key \in DOMAIN items /\ items[key].t = "Str" THEN Some(items[key].s) ELSE None

\* impl meta::Tag for m4a::Tag
m4a_title(items) == GetStr(items, a_nam)

m4a_artist(items) == GetStr(items, a_ART)

m4a_album(items) == GetStr(items, a_alb)

m4a_year(items) == GetUint(items, a_nam)

m4a_comment(items) == GetStr(items, a_nam)

m4a_track(items) == GetUint(items, a_trkn)

m4a_genre(items) == GetStr(items, a_gnre)


(***************************************************************************)
(* Inputs of the M4A reader: box streams built from the layout read_atom   *)
(* and parseData read                                                      *)
(***************************************************************************)
\* longest generated title, in characters
MaxTextLen == 3

\* 'T', 'e', e-acute (two bytes in UTF-8)
TextChars == {84, 101, 233}

Test == <<84, 101, 115, 116>>

Titles == UNION {[1..k -> TextChars] : k \in 0..MaxTextLen} \cup {Test}

\* the UTF-8 bytes of a string of code points below 0x800
RECURSIVE Utf8Bytes(_)
Utf8Bytes(str) ==
    IF str = <<>> THEN <<>>
    ELSE (IF Head(str) < 128 THEN <<Head(str)>>
          ELSE <<192 + (Head(str) \div 64), 128 + (Head(str) % 64)>>) \o Utf8Bytes(Tail(str))

\* a box: 4-byte big-endian length, 4-byte name, payload
Box(name, payload) ==
    <<0, 0, (8 + Len(payload)) \div 256, (8 + Len(payload)) % 256>> \o name \o payload

\* a data sub-atom: length, "data", version/flags, reserved, payload
DataAtom(flags, bytes) == Box(a_data, <<0, 0, 0, flags, 0, 0, 0, 0>> \o bytes)

\* moov > udta > meta > ilst > items, between other top-level boxes; meta
\* carries 4 bytes of version/flags before its children
M4aFile(lead, items, trail) ==
    lead \o Box(a_moov, Box(a_udta, Box(a_meta, <<0, 0, 0, 0>> \o Box(a_ilst, items)))) \o trail

\* "ftyp" and "free" boxes
FtypBox == Box(<<102, 116, 121, 112>>, <<>>)

FreeBox == Box(<<102, 114, 101, 101>>, <<0, 0>>)

M4aOpen ==
    \E text \in Titles, flags \in {0, 1}, lead \in {<<>>, FtypBox},
       trail \in {<<>>, FreeBox}, more \in {<<>>, Box(a_ART, DataAtom(1, <<101>>))} :
        LET file == M4aFile(lead, Box(a_nam, DataAtom(flags, Utf8Bytes(text))) \o more, trail)
        IN  /\ op = "none"
            /\ op' = "m4a_File_open"
            /\ input' = [file |-> file, text |-> text, flags |-> flags,
                         lead |-> lead, trail |-> trail, more |-> more]
            /\ result' = m4a_File_open(file)

\* parseGenre on a gnre atom whose data payload is the two index bytes
ParseGenre ==
    \E hi \in {0, 1}, lo \in 0..(Len(GENRE_LIST) + 2) :
        LET file == Box(a_gnre, DataAtom(0, <<hi, lo>>))
        IN  /\ op = "none"
            /\ op' = "parseGenre"
            /\ input' = [file |-> file, index |-> hi * 256 + lo]
            /\ result' = parseGenre(Len(file), file, 8)

\* the keys and values of the tags handed to the accessors
FacadeKeys == {a_nam, a_ART, a_alb, a_trkn}

FacadeValues == {Str(<<84>>), Str(Test), Uint(7)}

\* every accessor of impl meta::Tag for Tag, called on one tag
Facade ==
    \E keys \in SUBSET FacadeKeys :
        \E items \in [keys -> FacadeValues] :
            /\ op = "none"
            /\ op' = "facade"
            /\ input' = items
            /\ result' = [title   |-> m4a_title(items),
                          artist  |-> m4a_artist(items),
                          album   |-> m4a_album(items),
                          year    |-> m4a_year(items),
                          comment |-> m4a_comment(items),
                          track   |-> m4a_track(items),
                          genre   |-> m4a_genre(items)]

NextM4a == M4aOpen \/ ParseGenre \/ Facade

SpecM4a == Init /\ [][NextM4a]_vars

(***************************************************************************)
(* C7: gnre with big-endian u16 index i gives Str(GENRE_LIST[i-1])         *)
(* (0-based) for 1 <= i <= length, and a Malformed Err, not a crash, for   *)
(* i = 0 or i > length.                                                    *)
(***************************************************************************)
C7_GenreLookupOrErr ==
    op = "parseGenre" =>
        IF 1 <= input.index /\ input.index <= Len(GENRE_LIST)
        THEN result = Ok(Str(GENRE_LIST[input.index]))
        ELSE result.kind = "Err"

\* the in-range half, which the code meets
C7_InRangeLookup ==
    (op = "parseGenre" /\ 1 <= input.index /\ input.index <= Len(GENRE_LIST))
        => result = Ok(Str(GENRE_LIST[input.index]))

\* index 0 panics
C7_CodePanics ==
    op = "parseGenre" /\ input.index = 0 /\ result = Panic

(***************************************************************************)
(* C8: for a well-formed stream moov > udta > meta > ilst > (c)nam whose   *)
(* data sub-atom has flags 1 and UTF-8 payload s, File::open succeeds and  *)
(* title() is Some(s).                                                     *)
(***************************************************************************)
C8_TitleEndToEnd ==
    (op = "m4a_File_open" /\ input.flags = 1) =>
        /\ result.kind = "Ok"
        /\ m4a_title(result.v) = Some(input.text)

\* the file of the claim: title "Test", after an ftyp box
C8_Witness ==
    /\ op = "m4a_File_open"
    /\ input.flags = 1 /\ input.text = Test /\ input.lead # <<>>
    /\ result.kind = "Ok"
    /\ m4a_title(result.v) = Some(Test)


(***************************************************************************)
(* mpeg/file.rs: the three probes and File::open                           *)
(***************************************************************************)
ID3 == <<73, 68, 51>>

TAG == <<84, 65, 71>>

\* seek(Start(0)), read_exact(3 bytes): "ID3" is a tag at 0, an MPEG frame
\* sync is no tag, anything else is an error
find_id3v2(file) ==
    IF Len(file) < 3 THEN Err("UnexpectedEof")
    ELSE With(Slice(file, 0, 3), LAMBDA buf :
             IF buf = ID3 THEN Ok(Some(0))
             ELSE IF At(buf, 0) = 255 /\ (At(buf, 1) # 255 /\ BitAnd(At(buf, 1), 224) = 224)
                  THEN Ok(None)
                  ELSE Err("InvalidData"))

\* seek(End(-128)) fails before the start of the file; read_exact(3 bytes)
find_id3v1(file) ==
    IF Len(file) < 128 THEN Err("InvalidInput")
    ELSE With(Len(file) - 128, LAMBDA loc :
             IF Slice(file, loc, loc + 3) = TAG THEN Ok(Some(loc)) ELSE Ok(None))

find_ape(file) == Ok(None)

\* the (tag_type, location) pairs, each probe's error returned by `?`
find_mpeg_tags(file) ==
    With(find_id3v2(file), LAMBDA v2 :
        IF v2.kind # "Ok" THEN v2
        ELSE With(find_id3v1(file), LAMBDA v1 :
            IF v1.kind # "Ok" THEN v1
            ELSE With(find_ape(file), LAMBDA ape :
                IF ape.kind # "Ok" THEN ape
                ELSE LET tags == (IF v2.v.some THEN <<[tag_type |-> "ID3v2", location |-> v2.v.v]>> ELSE <<>>)
                              \o (IF v1.v.some THEN <<[tag_type |-> "ID3v1", location |-> v1.v.v]>> ELSE <<>>)
                              \o (IF ape.v.some THEN <<[tag_type |-> "APE", location |-> ape.v.v]>> ELSE <<>>)
                     IN  IF Len(tags) = 0 THEN Err("InvalidData") ELSE Ok(tags))))

\* for (tag_type, location) in ...: tags.push(match tag_type { ... }?)
RECURSIVE open_tags(_, _, _, _, _)
open_tags(file, found, i, tags, build) ==
    IF i > Len(found) THEN Ok(tags)
    ELSE With(CASE found[i].tag_type = "ID3v2" -> id3v2_from_file(file, found[i].location, build)
                [] found[i].tag_type = "ID3v1" -> id3v1_from_file(file, found[i].location)
                [] OTHER -> Ok(EmptyMap), LAMBDA tag :
             IF tag.kind # "Ok" THEN tag
             ELSE open_tags(file, found, i + 1, Append(tags, tag.v), build))

mpeg_File_open(file, build) ==
    With(find_mpeg_tags(file), LAMBDA found :
        IF found.kind # "Ok" THEN found
        ELSE With(open_tags(file, found.v, 1, <<>>, build), LAMBDA tags :
            IF tags.kind # "Ok" THEN tags
            ELSE IF Len(tags.v) = 0 THEN Err("Other")
            ELSE Ok(unify(tags.v))))

(***************************************************************************)
(* Inputs of the MPEG reader: a front, then the last 128 bytes             *)
(***************************************************************************)
\* what a file starts with: an ID3v2 tag with one artist frame, an MPEG
\* frame header, or bytes that are neither
Fronts ==
    {EncodeTag(3, 0, EncodeFrame(TPE1, 0, <<0, 67>>)),
     <<255, 251, 144, 0>>, <<255, 255, 251, 0>>, <<0, 0, 0, 0>>, <<82, 73, 70, 70>>}

\* 128 bytes that do not start with "TAG"
NoTagBlock == [i \in 1..128 |-> 0]

Trailers == Id3v1Blocks \cup {NoTagBlock, <<>>}

MpegOpen ==
    \E front \in Fronts, trailer \in Trailers, build \in {"debug", "release"} :
        /\ op = "none"
        /\ op' = "mpeg_File_open"
        /\ input' = [file |-> front \o trailer, front |-> front, trailer |-> trailer,
                     build |-> build]
        /\ result' = mpeg_File_open(front \o trailer, build)

NextMpegFile == MpegOpen

SpecMpegFile == Init /\ [][NextMpegFile]_vars

(***************************************************************************)
(* C9: a file with no "ID3" header at offset 0 and a "TAG" trailer at end  *)
(* minus 128 opens successfully with the ID3v1 values, whatever its first  *)
(* three bytes are.                                                        *)
(***************************************************************************)
HasOnlyId3v1 ==
    /\ op = "mpeg_File_open"
    /\ Slice(input.front, 0, 3) # ID3
    /\ input.trailer # <<>> /\ Slice(input.trailer, 0, 3) = TAG

OpensWithId3v1Values ==
    /\ result.kind = "Ok"
    /\ LET v1 == id3v1_from_block(input.trailer)
       IN  /\ title(result.v) = title(v1)
           /\ artist(result.v) = artist(v1)
           /\ album(result.v) = album(v1)
           /\ comment(result.v) = comment(v1)
           /\ track(result.v) = track(v1)

C9_Id3v1TrailerOpens == HasOnlyId3v1 => OpensWithId3v1Values

\* the claim restricted to files that start with an MPEG frame sync
C9_HoldsAfterFrameSync ==
    (HasOnlyId3v1 /\ find_id3v2(input.file) = Ok(None)) => OpensWithId3v1Values

\* first bytes 00 00 00: the open fails although the trailer is there
C9_CodeFails ==
    /\ HasOnlyId3v1
    /\ Slice(input.front, 0, 3) = <<0, 0, 0>>
    /\ result = Err("InvalidData")

(***************************************************************************)
(* Inputs of ID3v2 frame iteration: leading frames, then a region that     *)
(* is a frame, padding, or something the structural test looks at          *)
(***************************************************************************)
\* "tit2"
tit2 == <<116, 105, 116, 50>>

\* the region after the leading frames
NextFrames ==
    {[kind |-> "valid", id |-> i, bytes |-> EncodeFrame(i, 0, <<0, 66>>)] :
        i \in {TPE1, TYER, TORY, IPLS}}
    \cup {[kind |-> "zero_len", id |-> TPE1, bytes |-> TPE1 \o <<0, 0, 0, 0, 0, 0, 0, 66>>],
          [kind |-> "stuffed", id |-> TPE1, bytes |-> EncodeFrame(TPE1, 0, <<0, 255, 0, 66>>)],
          [kind |-> "padding", id |-> <<>>, bytes |-> [i \in 1..12 |-> 0]],
          [kind |-> "bad_id", id |-> tit2, bytes |-> EncodeFrame(tit2, 0, <<0, 66>>)],
          [kind |-> "dli_small", id |-> TPE1, bytes |-> EncodeFrame(TPE1, 1, <<0, 0, 0, 2>>)],
          [kind |-> "too_large", id |-> TPE1, bytes |-> TPE1 \o <<0, 0, 0, 100, 0, 0, 0, 66>>]}

\* header flags: none, footer (bit 4), unsynchronization (bit 7)
HeaderFlags == {0, 16, 128}

FrameIteration ==
    \E version \in {3, 4}, hflags \in HeaderFlags, lead \in LeadingFrames,
       next \in NextFrames, pad \in {<<>>, <<0, 0>>}, build \in {"debug", "release"} :
        LET file == EncodeTag(version, hflags, lead \o next.bytes \o pad)
        IN  /\ op = "none"
            /\ op' = "frame_iteration"
            /\ input' = [file |-> file, version |-> version, hflags |-> hflags,
                         lead |-> lead, kind |-> next.kind, id |-> next.id,
                         pad |-> pad, build |-> build]
            /\ result' = id3v2_from_file(file, 0, build)

\* longest tag body handed to Tag::from_buffer as is
MaxBodyLen == 11

\* 0x00 and 'T'
BodyBytes == {0, 84}

\* Tag::from_buffer on bytes that need not hold a frame; header.size is the
\* number of bytes read, as in id3v2_from_file
HostileTag ==
    \E version \in {2, 3, 4}, n \in 1..MaxBodyLen, build \in {"debug", "release"} :
        \E buf \in [1..n -> BodyBytes] :
            /\ op = "none"
            /\ op' = "Tag_from_buffer"
            /\ input' = [buf |-> buf, version |-> version, build |-> build]
            /\ result' = Tag_from_buffer(buf, TagHeaderOf(version, FALSE, Len(buf)), build)

\* payloads of a Latin1 text frame, without and with a stuffed 0x00
RegionPayloads == {<<0, 65>>, <<0, 255, 0, 66>>, <<0, 66, 255, 0>>}

\* what follows the frame in the buffer
RegionTails == {<<>>, <<255, 0, 1>>, EncodeFrame(TIT2, 0, <<0, 255, 0, 65>>)}

\* Frame::from_buffer on a frame followed by other bytes of the tag; the
\* result keeps the buffer as the call leaves it
FrameRegion ==
    \E version \in {3, 4}, hunsynch \in BOOLEAN, fflags \in {0, 2},
       payload \in RegionPayloads, tail \in RegionTails :
        LET buf == EncodeFrame(TPE1, fflags, payload) \o tail
        IN  /\ op = "none"
            /\ op' = "frame_region"
            /\ input' = [buf |-> buf, version |-> version, hunsynch |-> hunsynch,
                         fflags |-> fflags, payload |-> payload, tail |-> tail]
            /\ result' = Frame_from_buffer(buf, TagHeaderOf(version, hunsynch, Len(buf)))

NextIteration == FrameIteration \/ HostileTag \/ FrameRegion

SpecIteration == Init /\ [][NextIteration]_vars

\* the tag of the leading frames alone
LeadTag ==
    IF input.lead = <<>> THEN EmptyMap
    ELSE Insert(EmptyMap, TIT2, Text(<<65>>, "Latin1"))

FooterDeclared == Flag(input.hflags, 16)

(***************************************************************************)
(* C11: when the next frame is zero-length, starts with a 0x00 padding     *)
(* byte (no footer declared), or fails structural validity (id character   *)
(* outside [A-Z0-9], size not above the minimum, size larger than the      *)
(* remaining buffer), iteration stops without an error and the tag holds   *)
(* exactly the frames decoded before.                                      *)
(***************************************************************************)
IsSoftStop ==
    /\ op = "frame_iteration"
    /\ \/ input.kind \in {"zero_len", "bad_id", "too_large"}
       \/ input.kind = "dli_small" /\ input.version = 4
       \/ input.kind = "padding" /\ ~FooterDeclared

C11_SoftTermination == IsSoftStop => result = Ok(LeadTag)

\* v4 with the unsynchronization flag fails in the leading frame already
V4Unsynch == input.version = 4 /\ Flag(input.hflags, 128)

\* what the code meets: every case but the id character one
C11_HoldsForSizeAndPadding ==
    (IsSoftStop /\ input.kind # "bad_id" /\ ~(V4Unsynch /\ input.lead # <<>>))
        => result = Ok(LeadTag)

\* an id with a lowercase letter is an error, and the leading frame is lost
C11_CodeFailsOnBadId ==
    /\ IsSoftStop /\ input.kind = "bad_id" /\ input.version = 3 /\ input.hflags = 0
    /\ input.lead # <<>>
    /\ result = Err("InvalidData")

(***************************************************************************)
(* C12: when the tag header declares a footer (bit 4 of header byte 5)     *)
(* and iteration meets a 0x00 padding byte, the parse fails with an error; *)
(* with no footer declared the same byte is a clean stop.                  *)
(***************************************************************************)
MeetsPadding == op = "frame_iteration" /\ input.kind = "padding"

C12_PaddingWithFooterIsFatal ==
    MeetsPadding =>
        IF FooterDeclared THEN result.kind = "Err" ELSE result = Ok(LeadTag)

\* the half without a footer, which the code meets
C12_HoldsWithoutFooter ==
    (MeetsPadding /\ ~FooterDeclared /\ ~(V4Unsynch /\ input.lead # <<>>))
        => result = Ok(LeadTag)

\* the footer bit is set and the parse still stops cleanly
C12_CodeStopsCleanly ==
    MeetsPadding /\ FooterDeclared /\ input.lead # <<>> /\ result = Ok(LeadTag)

(***************************************************************************)
(* C16: a frame whose id is TORY, TYER or IPLS is remapped to TDOR, TDRC   *)
(* or TIPL before dispatch, so the tag map is keyed by the remapped id; a  *)
(* v3 tag with a TYER frame has key TDRC (forced to Uint(0)) and year()    *)
(* is Some.                                                                *)
(***************************************************************************)
HasLegacyFrame ==
    /\ op = "frame_iteration"
    /\ input.kind = "valid" /\ input.id \in {TORY, TYER, IPLS}
    /\ ~V4Unsynch

C16_LegacyIdRemapped ==
    HasLegacyFrame =>
        /\ result.kind = "Ok"
        /\ Header_update_id(input.id) \in DOMAIN result.v
        /\ input.id \notin DOMAIN result.v
        /\ (input.id = TYER => year(result.v) = Some(0))

\* the frame is decoded under the remapped id but keyed by the id it came with
C16_CodeKeepsLegacyKey ==
    /\ HasLegacyFrame /\ input.id = TYER /\ input.version = 3
    /\ result.kind = "Ok"
    /\ TYER \in DOMAIN result.v /\ TDRC \notin DOMAIN result.v
    /\ year(result.v) = None

(***************************************************************************)
(* C19: for every tag header with size >= 1 and every buffer content,      *)
(* Tag::from_buffer returns a tag or an error value; a declared size       *)
(* smaller than one frame header gives an empty tag, with no arithmetic    *)
(* underflow and no out-of-range index.                                    *)
(***************************************************************************)
ShorterThanHeader ==
    op = "Tag_from_buffer" /\ Len(input.buf) < sizeof_frame_header(input.version)

C19_HostileSizesSafe ==
    op = "Tag_from_buffer" =>
        /\ result.kind \in {"Ok", "Err"}
        /\ (ShorterThanHeader => result = Ok(EmptyMap))

\* from one frame header of bytes on, the loop bound does not underflow
C19_HoldsFromOneHeader ==
    (op = "Tag_from_buffer" /\ ~ShorterThanHeader) => result.kind \in {"Ok", "Err"}

\* buf_end - sizeof_frame_header underflows: a panic in a debug build
C19_CodeUnderflows ==
    ShorterThanHeader /\ input.build = "debug" /\ result = Panic

\* ... and in a release build a loop bound above every position
C19_CodeWraps ==
    ShorterThanHeader /\ input.build = "release" /\ result # Ok(EmptyMap)

(***************************************************************************)
(* C17: for major_version <= 3 with the header unsynch flag the whole      *)
(* frame-data buffer is decoded once before iteration and never per frame; *)
(* for major_version >= 4 a frame with the unsynchronization flag has only *)
(* its own payload region decoded, and the bytes outside that region are   *)
(* left unchanged.                                                         *)
(***************************************************************************)
\* the frame data of the tag file, and its header with the unsynch flag off
TagBody == Slice(input.file, 10, Len(input.file))

PlainHeader == TagHeaderOf(input.version, FALSE, Len(TagBody))

\* v <= 3: the result is that of iterating over decode(body) with no
\* further decoding, and a frame leaves the buffer as it is
WholeTagDecodedOnce ==
    /\ (op = "frame_iteration" /\ input.version <= 3 /\ Flag(input.hflags, 128))
           => result = Tag_from_buffer(decode(TagBody), PlainHeader, input.build)
    /\ (op = "frame_region" /\ input.version <= 3) => result.buf = input.buf

\* v >= 4: the payload region holds the payload without its stuffed zeros,
\* the frame header and the bytes after the region are as before
OnlyFrameRegionDecoded ==
    (op = "frame_region" /\ input.version >= 4 /\ Flag(input.fflags, 2)) =>
        LET hs      == sizeof_frame_header(input.version)
            size    == Len(input.payload)
            decoded == WithoutStuffedZeros(input.payload, 1)
        IN  /\ result.res.kind # "Panic"
            /\ Slice(result.buf, 0, hs) = Slice(input.buf, 0, hs)
            /\ Slice(result.buf, hs, hs + Len(decoded)) = decoded
            /\ Slice(result.buf, hs + size, Len(input.buf))
                   = Slice(input.buf, hs + size, Len(input.buf))

C17_UnsynchScope == WholeTagDecodedOnce /\ OnlyFrameRegionDecoded

\* the whole-tag half, which the code meets
C17_HoldsUpToV3 == WholeTagDecodedOnce

\* v4: the region is cut with the TAG header's size and runs past the buffer
C17_CodePanics ==
    /\ op = "frame_region" /\ input.version = 4 /\ Flag(input.fflags, 2)
    /\ input.payload = <<0, 255, 0, 66>> /\ input.tail # <<>>
    /\ result.res = Panic

(***************************************************************************)
(* Inputs of from_ascii: short fields, and an ID3v1 field of padding only  *)
(***************************************************************************)
\* longest enumerated field
MaxFieldLen == 4

\* NUL, space, 'A', e-acute
FieldBytes == {0, 32, 65, 233}

\* 30 NUL bytes: an empty ID3v1 title
NulField == [i \in 1..30 |-> 0]

FromAscii ==
    \E n \in 0..MaxFieldLen :
        \E buf \in [1..n -> FieldBytes] \cup {NulField} :
            /\ op = "none"
            /\ op' = "from_ascii"
            /\ input' = buf
            /\ result' = from_ascii(buf)

NextAscii == FromAscii

SpecAscii == Init /\ [][NextAscii]_vars

(***************************************************************************)
(* C18: from_ascii gives the input up to and including its last            *)
(* alphanumeric byte, so the result never ends in a non-alphanumeric       *)
(* character and a field of padding only yields the empty string.          *)
(***************************************************************************)
\* the 1-based place of the last alphanumeric byte, 0 without one
LastAlphanumeric(buf) ==
    LET hits == {i \in 1..Len(buf) : is_alphanumeric(buf[i])}
    IN  IF hits = {} THEN 0 ELSE CHOOSE i \in hits : \A j \in hits : j <= i

C18_TrimsTrailingPadding ==
    op = "from_ascii" =>
        /\ result = SubSeq(input, 1, LastAlphanumeric(input))
        /\ (result = <<>> \/ is_alphanumeric(result[Len(result)]))

\* the claim holds of every field with an alphanumeric byte
C18_HoldsWithAlphanumeric ==
    (op = "from_ascii" /\ LastAlphanumeric(input) > 0) =>
        /\ result = SubSeq(input, 1, LastAlphanumeric(input))
        /\ is_alphanumeric(result[Len(result)])

\* padding only: the whole field comes back
C18_CodeKeepsPadding ==
    op = "from_ascii" /\ input = NulField /\ result = NulField

(***************************************************************************)
(* Inputs of read_atom: streams of 8-byte units, each an atom header       *)
(* (declared length, name) or a 64-bit size field.  The declared lengths   *)
(* decide the nesting; they need not fit the stream.                       *)
(***************************************************************************)
\* most 8-byte units in a generated stream
MaxAtomUnits == 3

\* "free"
a_free == <<102, 114, 101, 101>>

\* declared lengths: extended-size marker, too short, header only, larger
AtomLengths == {1, 4, 8, 16, 24}

HeaderUnits == {<<0, 0, 0, len>> \o name : len \in AtomLengths, name \in {a_moov, a_udta, a_free}}

\* a big-endian 64-bit size
SizeUnits == {<<0, 0, 0, 0, 0, 0, 0, 16>>, <<0, 0, 0, 0, 0, 0, 0, 24>>}

RECURSIVE Flatten(_)
Flatten(units) == IF units = <<>> THEN <<>> ELSE Head(units) \o Flatten(Tail(units))

ReadAtom ==
    \E n \in 1..MaxAtomUnits :
        \E units \in [1..n -> HeaderUnits \cup SizeUnits] :
            /\ op = "none"
            /\ op' = "read_atom"
            /\ input' = [file |-> Flatten(units), units |-> units]
            /\ result' = read_atom(Flatten(units), 0)

\* an atom header that declares fewer than 8 bytes
ShortAtom(len) == <<0, 0, 0, len>> \o a_free

\* the moov > udta > meta > ilst > (c)nam stream with the short atom before
\* moov, after it, first in udta, or before or after the item in ilst
MalformedFile(place, short, item) ==
    LET ilst == Box(a_ilst, CASE place = "ilst_first" -> short \o item
                              [] place = "ilst_last" -> item \o short
                              [] OTHER -> item)
        meta == Box(a_meta, <<0, 0, 0, 0>> \o ilst)
        udta == Box(a_udta, IF place = "udta_first" THEN short \o meta ELSE meta)
        moov == Box(a_moov, udta)
    IN  CASE place = "lead" -> short \o moov
          [] place = "trail" -> moov \o short
          [] OTHER -> moov

OpenMalformed ==
    \E text \in Titles, len \in {0, 4, 7},
       place \in {"lead", "trail", "udta_first", "ilst_first", "ilst_last"} :
        LET file == MalformedFile(place, ShortAtom(len),
                                  Box(a_nam, DataAtom(1, Utf8Bytes(text))))
        IN  /\ op = "none"
            /\ op' = "open_malformed"
            /\ input' = [file |-> file, text |-> text, len |-> len, place |-> place]
            /\ result' = m4a_File_open(file)

NextAtoms == ReadAtom \/ OpenMalformed

SpecAtoms == Init /\ [][NextAtoms]_vars

(***************************************************************************)
(* C13: for every container atom read_atom produces, each child's byte     *)
(* range lies inside the parent's, children are read only while the cursor *)
(* is before the parent's end (a container with no payload has no          *)
(* children), and after read_atom the cursor is at offset + length.        *)
(***************************************************************************)
RECURSIVE Contained(_)
Contained(atom) ==
    /\ (atom.length = 8 => atom.children = <<>>)
    /\ \A i \in 1..Len(atom.children) :
        LET child == atom.children[i]
        IN  /\ atom.offset <= child.offset
            /\ child.offset + child.length <= atom.offset + atom.length
            /\ Contained(child)

C13_ChildrenContained ==
    (op = "read_atom" /\ result.kind = "Ok") =>
        /\ Contained(result.v.atom)
        /\ result.v.pos = result.v.atom.offset + result.v.atom.length

\* the cursor half, which the code meets
C13_CursorAtEnd ==
    (op = "read_atom" /\ result.kind = "Ok") =>
        result.v.pos = result.v.atom.offset + result.v.atom.length

\* "moov" of length 8 followed by "free": the atom after the container is
\* read as its child
C13_CodeReadsPastParent ==
    /\ op = "read_atom" /\ result.kind = "Ok"
    /\ result.v.atom.name = a_moov /\ result.v.atom.length = 8
    /\ Len(result.v.atom.children) = 1
    /\ result.v.atom.children[1].offset = 8

(***************************************************************************)
(* C14: for an atom whose 32-bit length field is 1, read_atom reads the    *)
(* 8-byte extended size that follows the header, records that 64-bit       *)
(* value as the length, and keeps the name of the original header.         *)
(***************************************************************************)
HasExtendedSize ==
    /\ op = "read_atom"
    /\ Len(input.units) >= 2
    /\ Slice(input.units[1], 0, 4) = <<0, 0, 0, 1>>

C14_ExtendedSize ==
    (HasExtendedSize /\ input.units[2] \in SizeUnits) =>
        /\ result.kind = "Ok"
        /\ result.v.atom.length = At(input.units[2], 7)
        /\ result.v.atom.name = Slice(input.units[1], 4, 8)

\* the length comes from the first four bytes of the size field, which
\* are zero for a size below 2^32
C14_CodeRejects ==
    /\ HasExtendedSize /\ input.units[2] = <<0, 0, 0, 0, 0, 0, 0, 24>>
    /\ Slice(input.units[1], 4, 8) = a_free
    /\ result = Err("InvalidData")

\* ... and the name from its last four
C14_CodeTakesNameFromSize ==
    /\ HasExtendedSize /\ input.units[2] = <<0, 0, 0, 16>> \o a_udta
    /\ Slice(input.units[1], 4, 8) = a_free
    /\ result.kind = "Ok"
    /\ result.v.atom.name = a_udta /\ result.v.atom.length = 16

(***************************************************************************)
(* C15: an atom with declared length < 8 aborts the parse: File::open on   *)
(* a stream with such an atom (top level or child of a container) returns  *)
(* an error, not a tag built from the atoms before it, and the error is    *)
(* not the 'required atom not found' one.                                  *)
(***************************************************************************)
\* the one error File::open itself returns
RequiredAtomNotFound == Err("InvalidData")

C15_ShortAtomAborts ==
    op = "open_malformed" =>
        /\ result.kind = "Err"
        /\ result # RequiredAtomNotFound

\* after moov the short atom only ends the read loop: the file opens
C15_CodeOpens ==
    /\ op = "open_malformed" /\ input.place = "trail" /\ input.text = Test
    /\ result.kind = "Ok"
    /\ m4a_title(result.v) = Some(Test)

\* before moov it hides moov
C15_CodeReportsNotFound ==
    op = "open_malformed" /\ input.place = "lead" /\ result = RequiredAtomNotFound

(***************************************************************************)
(* m4a.rs: the read loops of File::open and read_atom, one step at a time. *)
(* The reader is [pos, stack, phase, tops]: the cursor, the containers     *)
(* whose children are being read (offset and length of each), whether      *)
(* read_atom is about to be called ("call") or has just returned Ok to     *)
(* the enclosing loop ("returned"), and the set of offsets of the atoms    *)
(* pushed by the top-level loop.                                           *)
(***************************************************************************)
\* A plausible slip: no atom length is rejected.
too_short_Never(length) == FALSE

\* if length < 8 { return Err(..) }
too_short(length) == length < 8

\* read_atom up to the container test: the length, the name and the cursor
\* after the header
read_header(file, offset) ==
    IF offset + 8 > Len(file) THEN Err("UnexpectedEof")
    ELSE LET extended == U32ToNat(read_u32(Slice(file, offset, offset + 8))) = 1
         IN  IF extended /\ offset + 16 > Len(file) THEN Err("UnexpectedEof")
             ELSE LET buf    == IF extended THEN Slice(file, offset + 8, offset + 16)
                                ELSE Slice(file, offset, offset + 8)
                      length == U32ToNat(read_u32(buf))
                  IN  IF too_short(length) THEN Err("InvalidData")
                      ELSE Ok([length |-> length,
                               name   |-> m4a_from_ascii(Slice(buf, 4, 8)),
                               cursor |-> IF extended THEN offset + 16 ELSE offset + 8])

\* an atom at `offset` returns Ok to the loop that called read_atom: the
\* cursor is at its end, and the top-level loop pushes it
atom_returned(st, stack, offset, length) ==
    [pos   |-> offset + length,
     stack |-> stack,
     phase |-> "returned",
     tops  |-> IF stack = <<>> THEN st.tops \cup {offset} ELSE st.tops]

\* the container on top of the stack seeks to its end and returns Ok
container_returns(st) ==
    LET top == st.stack[Len(st.stack)]
    IN  atom_returned(st, SubSeq(st.stack, 1, Len(st.stack) - 1), top.offset, top.length)

\* one step of a reader that has not finished: "done" when the top-level
\* `while let Ok(..)` has met an Err
reader_step(file, st) ==
    IF st.phase = "call"
    THEN LET h == read_header(file, st.pos)
         IN  IF h.kind # "Ok"
             THEN IF st.stack = <<>> THEN [st EXCEPT !.phase = "done"]
                  ELSE container_returns(st)
             ELSE IF h.v.name \in containers
                  THEN [st EXCEPT !.pos = h.v.cursor + header_skip(h.v.name),
                                  !.stack = Append(@, [offset |-> st.pos,
                                                       length |-> h.v.length])]
                  ELSE atom_returned(st, st.stack, st.pos, h.v.length)
    ELSE IF st.stack = <<>> THEN [st EXCEPT !.phase = "call"]
    ELSE LET top == st.stack[Len(st.stack)]
         IN  IF st.pos < top.offset + top.length THEN [st EXCEPT !.phase = "call"]
             ELSE container_returns(st)

(***************************************************************************)
(* Inputs of the reader: streams of 8-byte atom headers                    *)
(***************************************************************************)
\* most 8-byte units in a stream given to the reader
MaxReaderUnits == 3

ReaderUnits ==
    {<<0, 0, 0, len>> \o name : len \in {0, 8, 16}, name \in {a_moov, a_meta, a_free}}
    \cup {<<0, 0, 0, 1>> \o a_free}

ReaderStart ==
    \E n \in 0..MaxReaderUnits :
        \E units \in [1..n -> ReaderUnits] :
            /\ op = "none"
            /\ op' = "reading"
            /\ input' = [file |-> Flatten(units), units |-> units]
            /\ result' = [pos |-> 0, stack |-> <<>>, phase |-> "call", tops |-> {}]

ReaderStep ==
    /\ op = "reading"
    /\ result' = reader_step(input.file, result)
    /\ op' = IF result'.phase = "done" THEN "read_done" ELSE "reading"
    /\ UNCHANGED input

NextReader == ReaderStart \/ ReaderStep

SpecReader == Init /\ [][NextReader]_vars /\ WF_vars(NextReader)

(***************************************************************************)
(* C20: for every finite input the top-level read loop of File::open and   *)
(* every child loop of read_atom terminate: each atom read moves the       *)
(* cursor to offset + length with length >= 8, and a failed read ends the  *)
(* enclosing loop.                                                         *)
(***************************************************************************)
C20_ReaderTerminates == (op = "reading") ~> (op = "read_done")

\* the atoms the top-level loop pushed are those of read_atoms
C20_SameAtoms ==
    op = "read_done" =>
        LET atoms == read_atoms(input.file, 0, <<>>)
        IN  result.tops = {atoms[i].offset : i \in 1..Len(atoms)}

\* every position the reader calls read_atom at is past the offsets of the
\* containers being read, in order
C20_Progress ==
    op = "reading" =>
        \A i \in 1..Len(result.stack) :
            /\ result.stack[i].length >= 8
            /\ result.stack[i].offset < result.pos
            /\ (i > 1 => result.stack[i - 1].offset < result.stack[i].offset)

\* a container with a child, then a second top-level atom, read to the end
C20_Witness ==
    /\ op = "read_done"
    /\ Len(input.units) = 3
    /\ input.units[1] = <<0, 0, 0, 16>> \o a_moov
    /\ result.tops = {0, 16}

(***************************************************************************)
(* C21: each accessor of the M4A facade reads its own key and no two of    *)
(* title(), artist(), album(), year(), comment() read the same one: for a  *)
(* tag whose only item is (c)nam = Str(s), title() is Some(s) while        *)
(* comment() and year() are None.                                          *)
(***************************************************************************)
\* a tag with one item, under `key`
OnlyItem(key) == op = "facade" /\ DOMAIN input = {key}

\* the accessors among the five that return a value
Answering ==
    {f \in {"title", "artist", "album", "year", "comment"} : result[f].some}

C21_AccessorsReadOwnKeys ==
    /\ (OnlyItem(a_nam) /\ input[a_nam].t = "Str") =>
           /\ result.title = Some(input[a_nam].s)
           /\ result.comment = None
           /\ result.year = None
    /\ \A key \in FacadeKeys : OnlyItem(key) => Cardinality(Answering) <= 1

\* title(), artist() and album() do read "(c)nam", "(c)ART" and "(c)alb"
C21_HoldsForTitleArtistAlbum ==
    op = "facade" =>
        /\ result.title = GetStr(input, a_nam)
        /\ result.artist = GetStr(input, a_ART)
        /\ result.album = GetStr(input, a_alb)

\* comment() answers with the title
C21_CodeCommentIsTitle ==
    /\ OnlyItem(a_nam) /\ input[a_nam] = Str(Test)
    /\ result.title = Some(Test) /\ result.comment = Some(Test)

\* year() answers from "(c)nam" too, when a number is stored there
C21_CodeYearReadsTitleKey ==
    OnlyItem(a_nam) /\ input[a_nam] = Uint(7) /\ result.year = Some(7)

====
